---- MODULE Spec2Model ----
(***************************************************************************)
(* usage_analyzer.py: a command-line report over a JSON export of usage    *)
(* and wellness data.                                                      *)
(*                                                                         *)
(* Representation.                                                         *)
(*   - A Python dict whose iteration order the code depends on (dailyData, *)
(*     appUsage, the aggregated app_usage) is a sequence of <<key, value>> *)
(*     pairs with distinct keys, in insertion order.                       *)
(*   - A Python dict that is only read by key (the export, a day record,   *)
(*     wellnessMetrics, the records inside it) is a function whose DOMAIN  *)
(*     is the set of keys present; a missing key is a key not in DOMAIN.   *)
(*   - A date key 'YYYY-MM-DD' is [parse |-> "ok", day |-> n], n the day   *)
(*     number (day 0 is a Monday); a key strptime rejects has parse "bad". *)
(*   - Time runs in half days: midnight of day n is 2*n, noon is 2*n+1.    *)
(*   - A float is an exact rational <<num, den>> with den > 0.             *)
(*   - A printed line is [k |-> kind, v |-> <<the values it shows>>].      *)
(*   - An exception is [type |-> class name, msg |-> str(e)].              *)
(***************************************************************************)
EXTENDS Integers, Sequences, FiniteSets, TLC

VARIABLES
    pc,          \* position of the run in main
    argv,        \* the command line
    args,        \* argparse's namespace
    fs,          \* what the path on the command line holds on disk
    now,         \* the clock datetime.now() reads
    data,        \* the loaded JSON document
    daily_data,  \* main's daily_data (after the --days filter)
    out,         \* the lines printed on standard output so far
    exc,         \* the exception in flight
    exit_code,   \* the process exit status: None while it runs, then Some(n)
    run,         \* 1 for the first run of the tool, 2 for the re-run
    prev         \* None, then Some(the first run's clock, output and status)

vars == <<pc, argv, args, fs, now, data, daily_data, out, exc, exit_code, run, prev>>

----------------------------------------------------------------------------
(* Generic helpers *)

Line(kind, v) == [k |-> kind, v |-> v]

NoExc == [type |-> "None", msg |-> ""]
KeyError(key) == [type |-> "KeyError", msg |-> key]
UnboundLocalError(name) == [type |-> "UnboundLocalError", msg |-> name]
ValueError(what) == [type |-> "ValueError", msg |-> what]
AttributeError(what) == [type |-> "AttributeError", msg |-> what]

\* What a function call leaves behind: the lines it printed and the
\* exception it raised, if any.
Ret(lines) == [out |-> lines, exc |-> NoExc]
Raise(lines, e) == [out |-> lines, exc |-> e]

\* dict.get(key, default)
Get(d, key, default) == IF key \in DOMAIN d THEN d[key] ELSE default

\* dict.values() of an ordered dict
Values(d) == [i \in 1..Len(d) |-> d[i][2]]

RECURSIVE SumSeq(_)
SumSeq(s) == IF s = <<>> THEN 0 ELSE s[1] + SumSeq(Tail(s))

RECURSIVE MaxSeq(_)
MaxSeq(s) == IF Len(s) = 1 THEN s[1]
             ELSE LET m == MaxSeq(Tail(s)) IN IF s[1] >= m THEN s[1] ELSE m

RECURSIVE Concat(_)
Concat(ss) == IF ss = <<>> THEN <<>> ELSE ss[1] \o Concat(Tail(ss))

RECURSIVE SelectSeqIdx(_, _)
\* the subsequence of s at the ascending index set I
SelectSeqIdx(s, I) ==
    IF I = {} THEN <<>>
    ELSE LET i == CHOOSE x \in I : \A y \in I : x <= y
         IN <<s[i]>> \o SelectSeqIdx(s, I \ {i})

IsPrefix(s, t) == Len(s) <= Len(t) /\ SubSeq(t, 1, Len(s)) = s

\* Exact rationals <<num, den>>, den > 0
Rat(n, d) == <<n, d>>
RAdd(a, b) == <<a[1] * b[2] + b[1] * a[2], a[2] * b[2]>>
RGt(a, b) == a[1] * b[2] > b[1] * a[2]
RLt(a, b) == RGt(b, a)
RDivInt(a, n) == <<a[1], a[2] * n>>
RMulInt(a, n) == <<a[1] * n, a[2]>>
RSub(a, b) == <<a[1] * b[2] - b[1] * a[2], a[2] * b[2]>>
RAbs(a) == <<IF a[1] < 0 THEN -a[1] ELSE a[1], a[2]>>

RECURSIVE RSum(_)
RSum(s) == IF s = <<>> THEN Rat(0, 1) ELSE RAdd(s[1], RSum(Tail(s)))

\* floor of a rational (den > 0); \div rounds towards minus infinity
RFloor(a) == a[1] \div a[2]

----------------------------------------------------------------------------
(* format_duration, lines 47-54 *)

SecondsPerHour == 3600
SecondsPerMinute == 60

\* seconds is a rational; the result is the text, as <<"h m", hours, minutes>>
\* or <<"m", minutes>>.
format_duration(seconds) ==
    LET hours == RFloor(RDivInt(seconds, SecondsPerHour))
        rest == RSub(seconds, Rat(hours * SecondsPerHour, 1))
        minutes == RFloor(RDivInt(rest, SecondsPerMinute))
    IN IF hours > 0 THEN <<"h m", hours, minutes>> ELSE <<"m", minutes>>

----------------------------------------------------------------------------
(* Number formatting *)

\* Python's float formatting rounds to nearest, ties to even (num >= 0).
\* A float that is not exactly the rational it stands for may round a
\* decimal tie the other way; no statement below rests on a tie.
RoundHalfEven(num, den) ==
    LET q == num \div den
        twice == 2 * (num - q * den)
    IN IF twice > den \/ (twice = den /\ q % 2 = 1) THEN q + 1 ELSE q

RoundRat(x) ==
    IF x[1] >= 0 THEN RoundHalfEven(x[1], x[2]) ELSE -RoundHalfEven(-x[1], x[2])

\* f"{x:.1f}": x rounded to one decimal, as a number of tenths
Fmt1(x) == RoundRat(RMulInt(x, 10))

\* f"{x:.0f}": x rounded to an integer
Fmt0(x) == RoundRat(x)

----------------------------------------------------------------------------
(* analyze_usage_data, lines 56-136 *)

TopN == 10
DaysPerWeek == 7
days_order == <<"Monday", "Tuesday", "Wednesday", "Thursday", "Friday",
                "Saturday", "Sunday">>

\* datetime.strptime(date_str, '%Y-%m-%d') succeeds
DateParses(date_str) == date_str.parse = "ok"

\* date_obj.strftime('%A'): day 0 is a Monday
Weekday(date_str) == days_order[(date_str.day % DaysPerWeek) + 1]

\* lines 83-86: app_usage[app] += time over every day's appUsage, keys in
\* first-insertion order.
RECURSIVE Accumulate(_, _)
Accumulate(app_usage, items) ==
    IF items = <<>> THEN app_usage
    ELSE LET app == items[1][1]
             time == items[1][2]
             hit == {i \in 1..Len(app_usage) : app_usage[i][1] = app}
             next == IF hit = {} THEN Append(app_usage, <<app, time>>)
                     ELSE [i \in 1..Len(app_usage) |->
                              IF i \in hit THEN <<app, app_usage[i][2] + time>>
                              ELSE app_usage[i]]
         IN Accumulate(next, Tail(items))

AppUsage(days) ==
    Accumulate(<<>>, Concat([i \in 1..Len(days) |-> Get(days[i], "appUsage", <<>>)]))

\* AppBefore without reverse=True: the listing comes out ascending
AppBeforeAscending(a, b) == a[2] < b[2]

\* The comparison sorted() makes with key=lambda x: x[1], reverse=True:
\* a goes before b.
AppBefore(a, b) == a[2] > b[2]

\* line 90: sorted(app_usage.items(), key=lambda x: x[1], reverse=True).
\* sorted() is stable, also with reverse=True: equal totals keep their order.
RECURSIVE InsertSorted(_, _)
InsertSorted(sorted, x) ==
    IF sorted = <<>> THEN <<x>>
    ELSE IF AppBefore(x, sorted[1]) THEN <<x>> \o sorted
    ELSE <<sorted[1]>> \o InsertSorted(Tail(sorted), x)

RECURSIVE SortedApps(_)
SortedApps(items) ==
    IF items = <<>> THEN <<>>
    ELSE InsertSorted(SortedApps(SubSeq(items, 1, Len(items) - 1)), items[Len(items)])

\* line 91: sorted_apps[:10]
TopSlice(sorted_apps) ==
    SubSeq(sorted_apps, 1, IF Len(sorted_apps) < TopN THEN Len(sorted_apps) ELSE TopN)

\* line 93: app.split('.')[-1] if '.' in app else app; an app identifier is
\* the sequence of its dot-separated components.
AppName(app) == app[Len(app)]

\* line 94
Percentage(time, total_session_time) ==
    IF total_session_time > 0 THEN Rat(time * 100, total_session_time) ELSE Rat(0, 1)

\* lines 88-95
TopAppLines(app_usage, total_session_time) ==
    IF app_usage = <<>> THEN <<>>
    ELSE LET top == TopSlice(SortedApps(app_usage))
         IN <<Line("TopAppsHeader", <<>>)>> \o
            [i \in 1..Len(top) |->
                Line("TopApp", <<i, AppName(top[i][1]),
                                 format_duration(Rat(top[i][2], 1)),
                                 Fmt1(Percentage(top[i][2], total_session_time))>>)]

\* lines 98-100 and 111-113: the sessions of every day, one list
Sessions(days, key) == Concat([i \in 1..Len(days) |-> Get(days[i], key, <<>>)])

\* session['duration'] for session in sessions: raises KeyError at the
\* first session without the key
LacksDuration(sessions) == \E i \in 1..Len(sessions) : "duration" \notin DOMAIN sessions[i]
Durations(sessions) == [i \in 1..Len(sessions) |-> sessions[i]["duration"]]

\* lines 102-108
DeepFocusLines(sessions) ==
    IF sessions = <<>> THEN Ret(<<>>)
    ELSE IF LacksDuration(sessions) THEN Raise(<<>>, KeyError("duration"))
    ELSE LET total_focus_time == SumSeq(Durations(sessions))
             avg_session_length == Rat(total_focus_time, Len(sessions))
         IN Ret(<<Line("DeepFocusHeader", <<>>),
                  Line("DeepFocusSessions", <<Len(sessions)>>),
                  Line("DeepFocusTotal", format_duration(Rat(total_focus_time, 1))),
                  Line("DeepFocusAverage", format_duration(avg_session_length))>>)

\* lines 115-121
WorkPatternLines(sessions) ==
    IF sessions = <<>> THEN Ret(<<>>)
    ELSE IF LacksDuration(sessions) THEN Raise(<<>>, KeyError("duration"))
    ELSE LET longest_session == MaxSeq(Durations(sessions))
             avg_session == Rat(SumSeq(Durations(sessions)), Len(sessions))
         IN Ret(<<Line("WorkPatternsHeader", <<>>),
                  Line("ContinuousSessions", <<Len(sessions)>>),
                  Line("LongestSession", format_duration(Rat(longest_session, 1))),
                  Line("AverageSession", format_duration(avg_session))>>)

\* line 135: the divisor of a weekday's average
WeekdayDivisor(total_days, idx) ==
    (total_days \div DaysPerWeek) + (IF total_days % DaysPerWeek > idx THEN 1 ELSE 0)

\* lines 124-136. The loop of line 127 parses the date keys in order and
\* raises ValueError at the first one strptime rejects, after the header.
WeeklyLines(dd) ==
    LET total_days == Len(dd)
        head == <<Line("WeeklyHeader", <<>>)>>
        weekly_total(name) ==
            SumSeq([i \in 1..Len(dd) |->
                IF Weekday(dd[i][1]) = name THEN dd[i][2]["totalSessionTime"] ELSE 0])
        present == {j \in 1..Len(days_order) :
                       \E i \in 1..Len(dd) : Weekday(dd[i][1]) = days_order[j]}
        line(j) == Line("Weekday",
                        <<days_order[j],
                          format_duration(Rat(weekly_total(days_order[j]),
                                              WeekdayDivisor(total_days, j - 1)))>>)
    IN IF total_days < DaysPerWeek THEN Ret(<<>>)
       ELSE IF \E i \in 1..Len(dd) : ~DateParses(dd[i][1])
            THEN Raise(head, ValueError("time data does not match format"))
       ELSE Ret(head \o SelectSeqIdx([j \in 1..Len(days_order) |-> line(j)], present))

\* Sequencing: what r printed, then what s printed, unless r raised.
Then(r, s) == IF r.exc # NoExc THEN r ELSE [out |-> r.out \o s.out, exc |-> s.exc]

Lacks(days, key) == \E i \in 1..Len(days) : key \notin DOMAIN days[i]
Total(days, key) == SumSeq([i \in 1..Len(days) |-> days[i][key]])

\* lines 64-80: the header and the basic statistics
BasicLines(days) ==
    LET head == <<Line("UsageHeader", <<>>), Line("Rule", <<>>)>>
        total_days == Len(days)
        total_session_time == Total(days, "totalSessionTime")
    IN IF Lacks(days, "totalSessionTime") THEN Raise(head, KeyError("totalSessionTime"))
       ELSE IF Lacks(days, "totalBreakTime") THEN Raise(head, KeyError("totalBreakTime"))
       ELSE IF Lacks(days, "callTime") THEN Raise(head, KeyError("callTime"))
       ELSE Ret(head \o
                <<Line("DataRange", <<total_days>>),
                  Line("TotalWork", format_duration(Rat(total_session_time, 1))),
                  Line("TotalBreak", format_duration(Rat(Total(days, "totalBreakTime"), 1))),
                  Line("TotalCall", format_duration(Rat(Total(days, "callTime"), 1)))>> \o
                (IF total_days > 0
                 THEN <<Line("AvgDailyWork",
                             format_duration(Rat(total_session_time, total_days)))>>
                 ELSE <<>>))

\* The body of analyze_usage_data after the empty check, lines 64-136
UsageBody(dd) ==
    LET days == Values(dd)
    IN Then(BasicLines(days),
       Then(Ret(TopAppLines(AppUsage(days), Total(days, "totalSessionTime"))),
       Then(DeepFocusLines(Sessions(days, "deepFocusSessions")),
       Then(WorkPatternLines(Sessions(days, "continuousWorkSessions")),
            WeeklyLines(dd)))))

\* analyze_usage_data without the empty check of lines 60-62
analyze_usage_data_unchecked(d) == UsageBody(Get(d, "dailyData", <<>>))

\* lines 56-136
analyze_usage_data(d) ==
    LET dd == Get(d, "dailyData", <<>>)
    IN IF dd = <<>> THEN Ret(<<Line("NoUsageData", <<>>)>>)
       ELSE UsageBody(dd)

----------------------------------------------------------------------------
(* analyze_correlations, lines 273-337 *)

MinCorrelationDays == 3
EnergyGap == 1
ExerciseGap == 20
MateGap == 1

\* line 290: the mood ordinal, 3 for a mood the table lacks
MoodScore(mood) ==
    CASE mood = "productive" -> 4
      [] mood = "balanced" -> 3
      [] mood = "tired" -> 2
      [] mood = "stressed" -> 1
      [] OTHER -> 3

\* lines 281-298: one day's entry of correlations
Correlation(day_data) ==
    LET wellness == Get(day_data, "wellnessMetrics", <<>>)
        mate == Get(wellness, "mateAndSugarRecords", <<>>)
        exercise == Get(wellness, "exerciseRecords", <<>>)
        energy == Get(wellness, "energyChecks", <<>>)
        reflection == Get(wellness, "dailyReflection", <<>>)
    IN [session_time |-> Get(day_data, "totalSessionTime", 0),
        mate_total |-> SumSeq([i \in 1..Len(mate) |-> Get(mate[i], "mateAmount", 0)]),
        exercise_done |-> \E i \in 1..Len(exercise) : Get(exercise[i], "done", FALSE),
        avg_energy |-> Rat(SumSeq([i \in 1..Len(energy) |-> Get(energy[i], "energyLevel", 0)]),
                           IF Len(energy) > 1 THEN Len(energy) ELSE 1),
        mood_score |-> MoodScore(Get(reflection, "mood", "balanced"))]

Correlations(dd) == [i \in 1..Len(dd) |-> Correlation(dd[i][2])]

\* sum(d['session_time'] for d in correlations) / len(correlations)
MeanSession(correlations) ==
    Rat(SumSeq([i \in 1..Len(correlations) |-> correlations[i].session_time]),
        Len(correlations))

\* line 304: session_time > mean
IsHigh(day, correlations) == RGt(Rat(day.session_time, 1), MeanSession(correlations))

\* IsLow with the comparison turned round
IsLowAbove(day, correlations) ==
    RGt(Rat(day.session_time, 1), RDivInt(RMulInt(MeanSession(correlations), 7), 10))

\* line 305: session_time < mean * 0.7 (0.7 is exactly 7/10 here; the float
\* is a little below it)
IsLow(day, correlations) ==
    RLt(Rat(day.session_time, 1), RDivInt(RMulInt(MeanSession(correlations), 7), 10))

HighDays(correlations) ==
    SelectSeqIdx(correlations,
                 {i \in 1..Len(correlations) : IsHigh(correlations[i], correlations)})
LowDays(correlations) ==
    SelectSeqIdx(correlations,
                 {i \in 1..Len(correlations) : IsLow(correlations[i], correlations)})

\* lines 308-310 and 318-320: the three averages of a non-empty set of days
AvgMate(days) == Rat(SumSeq([i \in 1..Len(days) |-> days[i].mate_total]), Len(days))
AvgEnergy(days) == RDivInt(RSum([i \in 1..Len(days) |-> days[i].avg_energy]), Len(days))
ExerciseRate(days) ==
    Rat(100 * SumSeq([i \in 1..Len(days) |-> IF days[i].exercise_done THEN 1 ELSE 0]),
        Len(days))

\* lines 312-315 and 322-325
SetLines(kind, days) ==
    <<Line(kind \o "Header", <<Len(days)>>),
      Line(kind \o "Mate", <<Fmt1(AvgMate(days))>>),
      Line(kind \o "Energy", <<Fmt1(AvgEnergy(days))>>),
      Line(kind \o "ExerciseRate", <<Fmt0(ExerciseRate(days))>>)>>

\* EnergyInsight without the gap: any higher average counts
EnergyInsightNoGap(high, low) == RGt(AvgEnergy(high), AvgEnergy(low))

\* line 329
EnergyInsight(high, low) == RGt(AvgEnergy(high), RAdd(AvgEnergy(low), Rat(EnergyGap, 1)))
\* line 331
ExerciseInsight(high, low) ==
    RGt(ExerciseRate(high), RAdd(ExerciseRate(low), Rat(ExerciseGap, 1)))
\* lines 333-337: "higher", "lower" or "none"
MateInsight(high, low) ==
    IF RGt(RAbs(RSub(AvgMate(high), AvgMate(low))), Rat(MateGap, 1))
    THEN (IF RGt(AvgMate(high), AvgMate(low)) THEN "higher" ELSE "lower")
    ELSE "none"

\* lines 328-337. avg_energy_high is bound only inside "if
\* high_productivity_days:", so reading it with no high day raises.
InsightLines(high, low) ==
    LET head == <<Line("InsightsHeader", <<>>)>>
    IN IF high = <<>>
       THEN Raise(head, UnboundLocalError("avg_energy_high"))
       ELSE Ret(head \o
                (IF EnergyInsight(high, low) THEN <<Line("InsightEnergy", <<>>)>> ELSE <<>>) \o
                (IF ExerciseInsight(high, low) THEN <<Line("InsightExercise", <<>>)>> ELSE <<>>) \o
                (CASE MateInsight(high, low) = "higher" -> <<Line("InsightMateHigher", <<>>)>>
                   [] MateInsight(high, low) = "lower" -> <<Line("InsightMateLower", <<>>)>>
                   [] OTHER -> <<>>))

\* lines 300-337
CorrelationBody(correlations) ==
    LET high == HighDays(correlations)
        low == LowDays(correlations)
    IN IF Len(correlations) >= MinCorrelationDays
       THEN Then(Ret(<<Line("Analyzed", <<Len(correlations)>>)>> \o
                     (IF high # <<>> THEN SetLines("High", high) ELSE <<>>)),
                 IF low # <<>>
                 THEN Then(Ret(SetLines("Low", low)), InsightLines(high, low))
                 ELSE Ret(<<>>))
       ELSE Ret(<<>>)

\* lines 273-337
analyze_correlations(dd) ==
    Then(Ret(<<Line("CorrelationsHeader", <<>>), Line("Rule", <<>>)>>),
         CorrelationBody(Correlations(dd)))

----------------------------------------------------------------------------
(* analyze_wellness_data, lines 138-271 *)

LowEnergyMax == 4
HighEnergyMin == 7

\* str.capitalize() on the words the export uses; any other string is
\* shown as it is.
Capitalize(word) ==
    CASE word = "none" -> "None"
      [] word = "light" -> "Light"
      [] word = "moderate" -> "Moderate"
      [] word = "intense" -> "Intense"
      [] word = "productive" -> "Productive"
      [] word = "balanced" -> "Balanced"
      [] word = "tired" -> "Tired"
      [] word = "stressed" -> "Stressed"
      [] word = "high" -> "High"
      [] word = "low" -> "Low"
      [] OTHER -> word

\* lines 150-163: every day's records of one kind, one list
WellnessRecords(days, key) ==
    Concat([i \in 1..Len(days) |->
               Get(Get(days[i], "wellnessMetrics", <<>>), key, <<>>)])

\* lines 166-174: one entry per day whose dailyReflection is a non-empty
\* dict (an empty one is falsy)
MoodRecords(days) ==
    LET reflection(i) == Get(Get(days[i], "wellnessMetrics", <<>>), "dailyReflection", <<>>)
        with == {i \in 1..Len(days) : reflection(i) # <<>>}
    IN SelectSeqIdx([i \in 1..Len(days) |->
                        [mood |-> Get(reflection(i), "mood", ""),
                         energy |-> Get(reflection(i), "energyLevel", 0),
                         stress |-> Get(reflection(i), "stressLevel", 0),
                         quality |-> Get(reflection(i), "workQuality", "")]],
                    with)

\* lines 189-193: mate per date of the records that carry a timestamp; the
\* date is the first ten characters of the timestamp
DailyMateTotals(mate_records) ==
    LET stamped == SelectSeqIdx(mate_records,
                       {i \in 1..Len(mate_records) : "timestamp" \in DOMAIN mate_records[i]})
    IN Accumulate(<<>>, [i \in 1..Len(stamped) |->
                        <<stamped[i]["timestamp"], Get(stamped[i], "mateAmount", 0)>>])

\* lines 177-197
MateLines(mate_records) ==
    IF mate_records = <<>> THEN <<>>
    ELSE LET n == Len(mate_records)
             total_mate == SumSeq([i \in 1..n |-> Get(mate_records[i], "mateAmount", 0)])
             total_sugar == SumSeq([i \in 1..n |-> Get(mate_records[i], "sugarLevel", 0)])
             mate_values == Values(DailyMateTotals(mate_records))
         IN <<Line("MateHeader", <<>>),
              Line("MateReports", <<n>>),
              Line("AvgMatePerCheck", <<Fmt1(Rat(total_mate, n))>>),
              Line("AvgSugarLevel", <<Fmt1(Rat(total_sugar, n))>>)>> \o
            (IF Len(mate_values) > 1
             THEN <<Line("MateTrend",
                         <<IF mate_values[Len(mate_values)] < mate_values[1]
                           THEN "Reducing" ELSE "Increasing">>)>>
             ELSE <<>>)

\* lines 212-220: the four intensities first, any other type after them in
\* order of first appearance; only the non-zero counts are shown
IntensityLines(exercise_records) ==
    LET base == <<<<"none", 0>>, <<"light", 0>>, <<"moderate", 0>>, <<"intense", 0>>>>
        intensity_count ==
            Accumulate(base, [i \in 1..Len(exercise_records) |->
                             <<Get(exercise_records[i], "type", "none"), 1>>])
        shown == SelectSeqIdx(intensity_count,
                     {i \in 1..Len(intensity_count) : intensity_count[i][2] > 0})
    IN <<Line("IntensityHeader", <<>>)>> \o
       [i \in 1..Len(shown) |-> Line("Intensity", <<Capitalize(shown[i][1]), shown[i][2]>>)]

\* lines 200-220
ExerciseLines(exercise_records) ==
    IF exercise_records = <<>> THEN <<>>
    ELSE LET n == Len(exercise_records)
             done(i) == Get(exercise_records[i], "done", FALSE)
             exercise_days == SumSeq([i \in 1..n |-> IF done(i) THEN 1 ELSE 0])
             total_duration ==
                 SumSeq([i \in 1..n |->
                            IF done(i) THEN Get(exercise_records[i], "duration", 0) ELSE 0])
         IN <<Line("ExerciseHeader", <<>>),
              Line("ExerciseReports", <<n>>),
              Line("ExerciseDays", <<exercise_days>>),
              Line("SuccessRate", <<Fmt1(Rat(exercise_days * 100, n))>>)>> \o
            (IF exercise_days > 0
             THEN <<Line("AvgDuration", <<Fmt0(Rat(total_duration, exercise_days))>>)>>
             ELSE <<>>) \o
            IntensityLines(exercise_records)

\* lines 223-235
EnergyLines(energy_records) ==
    IF energy_records = <<>> THEN <<>>
    ELSE LET n == Len(energy_records)
             energy_levels == [i \in 1..n |-> Get(energy_records[i], "energyLevel", 0)]
         IN <<Line("EnergyHeader", <<>>),
              Line("EnergyReports", <<n>>),
              Line("AverageEnergy", <<Fmt1(Rat(SumSeq(energy_levels), n))>>),
              Line("LowEnergyDays",
                   <<Cardinality({i \in 1..n : energy_levels[i] <= LowEnergyMax})>>),
              Line("HighEnergyDays",
                   <<Cardinality({i \in 1..n : energy_levels[i] >= HighEnergyMin})>>)>>

\* lines 243-255 and 264-271: a frequency table in order of first appearance
Distribution(kind, words) ==
    LET count == Accumulate(<<>>, [i \in 1..Len(words) |-> <<words[i], 1>>])
    IN [i \in 1..Len(count) |-> Line(kind, <<Capitalize(count[i][1]), count[i][2]>>)]

\* lines 238-271; reflection_days counts the same days as mood_records
MoodLines(mood_records) ==
    IF mood_records = <<>> THEN <<>>
    ELSE LET n == Len(mood_records)
             total_energy == SumSeq([i \in 1..n |-> mood_records[i].energy])
             total_stress == SumSeq([i \in 1..n |-> mood_records[i].stress])
         IN <<Line("MoodHeader", <<>>),
              Line("ReflectionDays", <<n>>),
              Line("MoodDistributionHeader", <<>>)>> \o
            Distribution("Mood", [i \in 1..n |-> mood_records[i].mood]) \o
            <<Line("ReflectionEnergy", <<Fmt1(Rat(total_energy, n))>>),
              Line("ReflectionStress", <<Fmt1(Rat(total_stress, n))>>),
              Line("QualityDistributionHeader", <<>>)>> \o
            Distribution("Quality", [i \in 1..n |-> mood_records[i].quality])

\* lines 138-271
analyze_wellness_data(dd) ==
    LET days == Values(dd)
    IN Ret(<<Line("WellnessHeader", <<>>), Line("Rule", <<>>)>> \o
           MateLines(WellnessRecords(days, "mateAndSugarRecords")) \o
           ExerciseLines(WellnessRecords(days, "exerciseRecords")) \o
           EnergyLines(WellnessRecords(days, "energyChecks")) \o
           MoodLines(MoodRecords(days)))

----------------------------------------------------------------------------
(* main, lines 339-398 *)

ExitOk == 0
ExitError == 1
ExitUsage == 2

None == <<>>
Some(x) == <<x>>

\* midnight of a date key, in half days
Midnight(date_str) == 2 * date_str.day

\* line 358: datetime.now() - timedelta(days=args.days)
CutoffDate(clock, days) == clock - 2 * days

\* DaysGiven as "args.days is not None": 0 filters too
DaysGivenNotNone(a) == a.days # None

\* line 356: "if args.days:" is false for None and for 0
DaysGiven(a) == a.days # None /\ a.days[1] # 0

\* lines 359-362
FilterDays(dd, clock, days) ==
    SelectSeqIdx(dd, {i \in 1..Len(dd) : Midnight(dd[i][1]) >= CutoffDate(clock, days)})

\* line 367: a day has wellness data when wellnessMetrics is a non-empty dict
HasWellnessData(dd) ==
    \E i \in 1..Len(dd) : Get(dd[i][2], "wellnessMetrics", <<>>) # <<>>

\* lines 340-347: parse_args() leaves through SystemExit on -h (status 0,
\* the help on standard output) and on a command line it rejects (status 2,
\* the usage on standard error), both outside the try of line 349.
ParseArgs ==
    /\ pc = "parse"
    /\ IF argv.help
       THEN /\ out' = Append(out, Line("Help", <<>>))
            /\ exit_code' = Some(ExitOk)
            /\ pc' = "exited"
            /\ args' = args
       ELSE IF ~argv.file \/ argv.days_token = "junk"
       THEN /\ exit_code' = Some(ExitUsage)
            /\ pc' = "exited"
            /\ UNCHANGED <<out, args>>
       ELSE /\ args' = [summary |-> argv.summary,
                        wellness_only |-> argv.wellness_only,
                        correlations |-> argv.correlations,
                        days |-> IF argv.days_token = "int"
                                 THEN Some(argv.days_value) ELSE None]
            /\ pc' = "load"
            /\ UNCHANGED <<out, exit_code>>
    /\ UNCHANGED <<argv, fs, now, data, daily_data, exc, run, prev>>

\* lines 350-353: open, json.load, data.get('dailyData', {})
LoadFile ==
    /\ pc = "load"
    /\ CASE fs.kind = "missing" ->
              /\ exc' = [type |-> "FileNotFoundError", msg |-> "No such file or directory"]
              /\ pc' = "except"
              /\ UNCHANGED <<data, daily_data>>
         [] fs.kind = "denied" ->
              /\ exc' = [type |-> "PermissionError", msg |-> "Permission denied"]
              /\ pc' = "except"
              /\ UNCHANGED <<data, daily_data>>
         [] fs.kind = "garbage" ->
              /\ exc' = [type |-> "JSONDecodeError", msg |-> "Expecting value"]
              /\ pc' = "except"
              /\ UNCHANGED <<data, daily_data>>
         [] fs.kind = "json" /\ fs.doc.type # "object" ->
              /\ data' = fs.doc
              /\ exc' = AttributeError("object has no attribute 'get'")
              /\ pc' = "except"
              /\ UNCHANGED daily_data
         [] OTHER ->
              /\ data' = fs.doc
              /\ daily_data' = Get(fs.doc.value, "dailyData", <<>>)
              /\ pc' = "filter"
              /\ UNCHANGED exc
    /\ UNCHANGED <<argv, args, fs, now, out, exit_code, run, prev>>

\* lines 356-365
Filter ==
    /\ pc = "filter"
    /\ IF ~DaysGiven(args)
       THEN /\ pc' = "dispatch"
            /\ UNCHANGED <<data, daily_data, out, exc>>
       ELSE IF \E i \in 1..Len(daily_data) : ~DateParses(daily_data[i][1])
       THEN /\ exc' = ValueError("time data does not match format")
            /\ pc' = "except"
            /\ UNCHANGED <<data, daily_data, out>>
       ELSE LET filtered_daily_data == FilterDays(daily_data, now, args.days[1])
            IN /\ data' = [data EXCEPT !.value =
                              [k \in DOMAIN data.value \cup {"dailyData"} |->
                                  IF k = "dailyData" THEN filtered_daily_data
                                  ELSE data.value[k]]]
               /\ daily_data' = filtered_daily_data
               /\ out' = Append(out, Line("AnalyzingLast",
                                          <<args.days[1], Len(filtered_daily_data)>>))
               /\ pc' = "dispatch"
               /\ exc' = exc
    /\ UNCHANGED <<argv, args, fs, now, exit_code, run, prev>>

\* What a call made inside the try leaves: its lines, and the next position
\* or the handler.
AfterCall(r, next) ==
    /\ out' = out \o r.out
    /\ exc' = r.exc
    /\ pc' = IF r.exc # NoExc THEN "except" ELSE next

\* lines 370-374
WellnessOnly ==
    /\ pc = "dispatch"
    /\ args.wellness_only
    /\ AfterCall(IF HasWellnessData(daily_data)
                 THEN analyze_wellness_data(daily_data)
                 ELSE Ret(<<Line("NoWellnessData", <<>>)>>), "end")
    /\ UNCHANGED <<argv, args, fs, now, data, daily_data, exit_code, run, prev>>

\* CorrelationsOnly without the "el" of its "elif": it is no longer barred
\* when --wellness-only is given
CorrelationsOnlyNoElse ==
    /\ pc = "dispatch"
    /\ args.correlations
    /\ AfterCall(IF HasWellnessData(daily_data)
                 THEN analyze_correlations(daily_data)
                 ELSE Ret(<<Line("NoWellnessDataForCorrelations", <<>>)>>), "end")
    /\ UNCHANGED <<argv, args, fs, now, data, daily_data, exit_code, run, prev>>

\* lines 375-379
CorrelationsOnly ==
    /\ pc = "dispatch"
    /\ ~args.wellness_only
    /\ args.correlations
    /\ AfterCall(IF HasWellnessData(daily_data)
                 THEN analyze_correlations(daily_data)
                 ELSE Ret(<<Line("NoWellnessDataForCorrelations", <<>>)>>), "end")
    /\ UNCHANGED <<argv, args, fs, now, data, daily_data, exit_code, run, prev>>

\* lines 380-382
FullUsage ==
    /\ pc = "dispatch"
    /\ ~args.wellness_only
    /\ ~args.correlations
    /\ AfterCall(analyze_usage_data(data.value), "full_wellness")
    /\ UNCHANGED <<argv, args, fs, now, data, daily_data, exit_code, run, prev>>

\* lines 384-385 and 387-388
FullWellness ==
    /\ pc = "full_wellness"
    /\ IF HasWellnessData(daily_data)
       THEN AfterCall(analyze_wellness_data(daily_data), "full_correlations")
       ELSE AfterCall(Ret(<<Line("NoWellnessDataStartUsing", <<>>)>>), "end")
    /\ UNCHANGED <<argv, args, fs, now, data, daily_data, exit_code, run, prev>>

\* line 386
FullCorrelations ==
    /\ pc = "full_correlations"
    /\ AfterCall(analyze_correlations(daily_data), "end")
    /\ UNCHANGED <<argv, args, fs, now, data, daily_data, exit_code, run, prev>>

\* HandleException without the "except Exception" clause: any other
\* exception leaves main, the interpreter prints the traceback on standard
\* error and ends with status 1
HandleExceptionNarrow ==
    /\ pc = "except"
    /\ out' = CASE exc.type = "FileNotFoundError" -> Append(out, Line("ErrorFileNotFound", <<>>))
                [] exc.type = "JSONDecodeError" -> Append(out, Line("ErrorInvalidJSON", <<>>))
                [] OTHER -> out
    /\ exit_code' = Some(1)
    /\ pc' = "exited"
    /\ UNCHANGED <<argv, args, fs, now, data, daily_data, exc, run, prev>>

\* lines 390-398: the three handlers, each one print and sys.exit(1)
HandleException ==
    /\ pc = "except"
    /\ out' = Append(out,
                CASE exc.type = "FileNotFoundError" -> Line("ErrorFileNotFound", <<>>)
                  [] exc.type = "JSONDecodeError" -> Line("ErrorInvalidJSON", <<>>)
                  [] OTHER -> Line("Error", <<exc.msg>>))
    /\ exit_code' = Some(ExitError)
    /\ pc' = "exited"
    /\ UNCHANGED <<argv, args, fs, now, data, daily_data, exc, run, prev>>

\* main returns and the interpreter ends with status 0
Finish ==
    /\ pc = "end"
    /\ exit_code' = Some(ExitOk)
    /\ pc' = "exited"
    /\ UNCHANGED <<argv, args, fs, now, data, daily_data, out, exc, run, prev>>

----------------------------------------------------------------------------
(* The exports, command lines and clocks the runs are drawn from *)

EmptyDict == [k \in {} |-> 0]
DateKey(n) == [parse |-> "ok", day |-> n]
BadDateKey == [parse |-> "bad", day |-> 0]

\* The day the first run happens on, and how far the date keys reach back
Today == 10
DateSpan == 2
\* The largest N given to --days, the most days of an export given to main,
\* and the most half days between the run and the re-run
MaxDaysArg == 2
MaxMainDays == 2
MaxElapsed == 2

\* The identifier of the i-th application, "com.acme.<i>"
App(i) == <<"com", "acme", i>>

UsageDay ==
    [totalSessionTime |-> 3600, totalBreakTime |-> 600, callTime |-> 300,
     appUsage |-> <<<<App(1), 1800>>>>,
     deepFocusSessions |-> <<[duration |-> 1500]>>,
     continuousWorkSessions |-> <<[duration |-> 2700]>>]

FullWellnessMetrics ==
    [mateAndSugarRecords |-> <<[mateAmount |-> 2, sugarLevel |-> 1, timestamp |-> DateKey(Today)]>>,
     exerciseRecords |-> <<[done |-> TRUE, duration |-> 30, type |-> "light"]>>,
     energyChecks |-> <<[energyLevel |-> 7]>>,
     dailyReflection |-> [mood |-> "productive", energyLevel |-> 7,
                          stressLevel |-> 3, workQuality |-> "high"]]

\* every record of the wellness metrics lacks some or all of its fields
SparseWellnessMetrics ==
    [mateAndSugarRecords |-> <<EmptyDict>>,
     exerciseRecords |-> <<[done |-> TRUE]>>,
     energyChecks |-> <<EmptyDict>>,
     dailyReflection |-> [mood |-> "tired"]]

FullDay == UsageDay @@ [wellnessMetrics |-> FullWellnessMetrics]

\* a day with the usage keys and wellness metrics whose records are sparse
SparseWellnessDay == UsageDay @@ [wellnessMetrics |-> SparseWellnessMetrics]

\* a day with no key at all
EmptyDay == EmptyDict

MainDays == {UsageDay, FullDay, SparseWellnessDay, EmptyDay}

MainDateKeys ==
    <<BadDateKey>> \o [i \in 1..(DateSpan + 2) |-> DateKey(Today - DateSpan + i - 1)]

\* The dailyData mappings given to main: up to MaxMainDays days, the keys in
\* the order of MainDateKeys.
RECURSIVE DailyDataOver(_, _, _)
DailyDataOver(keys, days, n) ==
    IF keys = <<>> \/ n = 0 THEN {<<>>}
    ELSE DailyDataOver(Tail(keys), days, n)
         \cup {<<<<keys[1], d>>>> \o rest :
                  d \in days, rest \in DailyDataOver(Tail(keys), days, n - 1)}

Object(value) == [type |-> "object", value |-> value]
NoDocument == [type |-> "none", value |-> EmptyDict]

Files(max_days) ==
    {[kind |-> k, doc |-> NoDocument] : k \in {"missing", "denied", "garbage"}}
    \cup {[kind |-> "json", doc |-> [type |-> "array", value |-> EmptyDict]],
          [kind |-> "json", doc |-> Object(EmptyDict)]}
    \cup {[kind |-> "json", doc |-> Object([dailyData |-> dd])] :
             dd \in DailyDataOver(MainDateKeys, MainDays, max_days)}

Argv(file, help, summary, wellness_only, correlations, days_token, days_value) ==
    [file |-> file, help |-> help, summary |-> summary,
     wellness_only |-> wellness_only, correlations |-> correlations,
     days_token |-> days_token, days_value |-> days_value]

CommandLines ==
    {Argv(TRUE, FALSE, FALSE, w, c, "none", 0) : w \in BOOLEAN, c \in BOOLEAN}
    \cup {Argv(TRUE, FALSE, FALSE, w, c, "int", n) :
             w \in BOOLEAN, c \in BOOLEAN, n \in (-1)..MaxDaysArg}
    \cup {Argv(TRUE, FALSE, TRUE, FALSE, FALSE, "none", 0),
          Argv(TRUE, TRUE, FALSE, FALSE, FALSE, "none", 0),
          Argv(FALSE, FALSE, FALSE, FALSE, FALSE, "none", 0),
          Argv(TRUE, FALSE, FALSE, FALSE, FALSE, "junk", 0)}

NoArgs == [summary |-> FALSE, wellness_only |-> FALSE, correlations |-> FALSE,
           days |-> None]

\* noon of Today
Noon == 2 * Today + 1

Init ==
    /\ pc = "parse"
    /\ argv \in CommandLines
    /\ fs \in Files(MaxMainDays)
    /\ now = Noon
    /\ args = NoArgs
    /\ data = NoDocument
    /\ daily_data = <<>>
    /\ out = <<>>
    /\ exc = NoExc
    /\ exit_code = None
    /\ run = 1
    /\ prev = None

\* The tool is run again on the same file with the same arguments, at the
\* same clock reading or MaxElapsed half days later.
Rerun ==
    /\ pc = "exited"
    /\ run = 1
    /\ run' = 2
    /\ prev' = Some([now |-> now, out |-> out, exit_code |-> exit_code])
    /\ \E later \in {0, MaxElapsed} : now' = now + later
    /\ pc' = "parse"
    /\ args' = NoArgs
    /\ data' = NoDocument
    /\ daily_data' = <<>>
    /\ out' = <<>>
    /\ exc' = NoExc
    /\ exit_code' = None
    /\ UNCHANGED <<argv, fs>>

Next ==
    \/ ParseArgs
    \/ LoadFile
    \/ Filter
    \/ WellnessOnly
    \/ CorrelationsOnly
    \/ FullUsage
    \/ FullWellness
    \/ FullCorrelations
    \/ HandleException
    \/ Finish
    \/ Rerun

Spec == Init /\ [][Next]_vars

----------------------------------------------------------------------------
(* analyze_usage_data on its own *)

\* The most applications of one day, and the most days of a weekly export
MaxApps == 11
MaxWeeklyDays == 8
MaxOverlapDays == 3

Restrict(f, S) == [k \in DOMAIN f \cap S |-> f[k]]

UsageKeys == {"totalSessionTime", "totalBreakTime", "callTime", "appUsage",
              "deepFocusSessions", "continuousWorkSessions"}

TimedDay(session) == [totalSessionTime |-> session, totalBreakTime |-> 0, callTime |-> 0]

\* one day with n applications, each used for one or two minutes
ManyAppsExport(n, times, session) ==
    <<<<DateKey(0), TimedDay(session) @@ [appUsage |-> [i \in 1..n |-> <<App(i), times[i]>>]]>>>>

\* several days whose applications overlap, in different orders
AppUsageChoices ==
    {<<>>,
     <<<<App(1), 60>>>>,
     <<<<App(2), 120>>, <<App(1), 60>>>>,
     <<<<App(3), 3600>>, <<App(2), 60>>>>}

OverlapDays == {TimedDay(3600)} \cup {TimedDay(3600) @@ [appUsage |-> a] : a \in AppUsageChoices}

OverlapExport(n, days) == [i \in 1..n |-> <<DateKey(i), days[i]>>]

\* a week or more of consecutive days
WeeklyExport(n, start, sessions) ==
    [i \in 1..n |-> <<DateKey(start + i), TimedDay(sessions[i])>>]

\* a week with a key that is no date
BadKeyExport ==
    [i \in 1..DaysPerWeek |-> <<IF i = 2 THEN BadDateKey ELSE DateKey(i), TimedDay(3600)>>]

\* one day lacking any of its keys, and sessions lacking their duration
MissingKeyExports ==
    {<<<<DateKey(0), Restrict(UsageDay, S)>>>> : S \in SUBSET UsageKeys}
    \cup {<<<<DateKey(0), [UsageDay EXCEPT !.deepFocusSessions = <<[duration |-> 60], EmptyDict>>]>>>>,
          <<<<DateKey(0), [UsageDay EXCEPT !.continuousWorkSessions = <<EmptyDict>>]>>>>}

InitUsage ==
    /\ pc = "call_usage"
    /\ \/ data \in {Object(EmptyDict), Object([dailyData |-> <<>>])}
       \/ \E n \in 0..MaxApps : \E times \in [1..n -> {60, 120}] : \E t \in {0, 100, 7200} :
             data = Object([dailyData |-> ManyAppsExport(n, times, t)])
       \/ \E n \in 1..MaxOverlapDays : \E days \in [1..n -> OverlapDays] :
             data = Object([dailyData |-> OverlapExport(n, days)])
       \/ \E n \in DaysPerWeek..MaxWeeklyDays : \E start \in {0, 3} :
             \E sessions \in [1..n -> {0, 3600}] :
                data = Object([dailyData |-> WeeklyExport(n, start, sessions)])
       \/ data \in {Object([dailyData |-> dd]) : dd \in MissingKeyExports \cup {BadKeyExport}}
    /\ argv = Argv(TRUE, FALSE, FALSE, FALSE, FALSE, "none", 0)
    /\ fs = [kind |-> "json", doc |-> data]
    /\ now = Noon
    /\ args = NoArgs
    /\ daily_data = Get(data.value, "dailyData", <<>>)
    /\ out = <<>>
    /\ exc = NoExc
    /\ exit_code = None
    /\ run = 1
    /\ prev = None

\* analyze_usage_data(data) is called and returns or raises
CallAnalyzeUsageData ==
    /\ pc = "call_usage"
    /\ LET r == analyze_usage_data(data.value)
       IN /\ out' = r.out
          /\ exc' = r.exc
    /\ pc' = "usage_returned"
    /\ UNCHANGED <<argv, args, fs, now, data, daily_data, exit_code, run, prev>>

NextUsage == CallAnalyzeUsageData

SpecUsage == InitUsage /\ [][NextUsage]_vars

----------------------------------------------------------------------------
(* analyze_correlations on its own *)

\* The most days given to analyze_correlations
MaxCorrDays == 3

\* The wellness metrics of a day, by profile
WellnessProfiles ==
    {[mateAndSugarRecords |-> <<[mateAmount |-> 1]>>,
      exerciseRecords |-> <<[done |-> FALSE, type |-> "none"]>>,
      energyChecks |-> <<[energyLevel |-> 5]>>,
      dailyReflection |-> [mood |-> "sleepy"]],
     [mateAndSugarRecords |-> <<[mateAmount |-> 1], [mateAmount |-> 1, sugarLevel |-> 2]>>,
      exerciseRecords |-> <<[done |-> TRUE, duration |-> 30]>>,
      energyChecks |-> <<[energyLevel |-> 12], EmptyDict>>,
      dailyReflection |-> [mood |-> "productive"]],
     [mateAndSugarRecords |-> <<[mateAmount |-> 3], EmptyDict>>,
      exerciseRecords |-> <<EmptyDict, [done |-> TRUE]>>,
      energyChecks |-> <<[energyLevel |-> 3], [energyLevel |-> 5]>>]}

\* The days given to analyze_correlations
CorrDays ==
    {[totalSessionTime |-> s] : s \in {0, 3600, 7200}}
    \cup {[totalSessionTime |-> s, wellnessMetrics |-> w] :
             s \in {0, 3600, 7200}, w \in WellnessProfiles}
    \cup {[totalSessionTime |-> -3600], EmptyDay}

CorrInput(n, days) == [i \in 1..n |-> <<DateKey(i), days[i]>>]

InitCorr ==
    /\ pc = "call_correlations"
    /\ \E n \in 0..MaxCorrDays : \E days \in [1..n -> CorrDays] :
          daily_data = CorrInput(n, days)
    /\ data = Object([dailyData |-> daily_data])
    /\ argv = Argv(TRUE, FALSE, FALSE, FALSE, TRUE, "none", 0)
    /\ fs = [kind |-> "json", doc |-> data]
    /\ now = Noon
    /\ args = NoArgs
    /\ out = <<>>
    /\ exc = NoExc
    /\ exit_code = None
    /\ run = 1
    /\ prev = None

\* analyze_correlations(daily_data) is called and returns or raises
CallAnalyzeCorrelations ==
    /\ pc = "call_correlations"
    /\ LET r == analyze_correlations(daily_data)
       IN /\ out' = r.out
          /\ exc' = r.exc
    /\ pc' = "correlations_returned"
    /\ UNCHANGED <<argv, args, fs, now, data, daily_data, exit_code, run, prev>>

NextCorr == CallAnalyzeCorrelations

SpecCorr == InitCorr /\ [][NextCorr]_vars

----------------------------------------------------------------------------
(* Statements about main *)

Kinds(lines) == {lines[i].k : i \in 1..Len(lines)}

UsageKinds ==
    {"NoUsageData", "UsageHeader", "DataRange", "TotalWork", "TotalBreak", "TotalCall",
     "AvgDailyWork", "TopAppsHeader", "TopApp", "DeepFocusHeader", "DeepFocusSessions",
     "DeepFocusTotal", "DeepFocusAverage", "WorkPatternsHeader", "ContinuousSessions",
     "LongestSession", "AverageSession", "WeeklyHeader", "Weekday"}

WellnessKinds ==
    {"WellnessHeader", "MateHeader", "MateReports", "AvgMatePerCheck", "AvgSugarLevel",
     "MateTrend", "ExerciseHeader", "ExerciseReports", "ExerciseDays", "SuccessRate",
     "AvgDuration", "IntensityHeader", "Intensity", "EnergyHeader", "EnergyReports",
     "AverageEnergy", "LowEnergyDays", "HighEnergyDays", "MoodHeader", "ReflectionDays",
     "MoodDistributionHeader", "Mood", "ReflectionEnergy", "ReflectionStress",
     "QualityDistributionHeader", "Quality", "NoWellnessData", "NoWellnessDataStartUsing"}

CorrelationKinds ==
    {"CorrelationsHeader", "Analyzed", "HighHeader", "HighMate", "HighEnergy",
     "HighExerciseRate", "LowHeader", "LowMate", "LowEnergy", "LowExerciseRate",
     "InsightsHeader", "InsightEnergy", "InsightExercise", "InsightMateHigher",
     "InsightMateLower", "NoWellnessDataForCorrelations"}

ErrorKinds == {"ErrorFileNotFound", "ErrorInvalidJSON", "Error"}

ErrorLines(lines) == {i \in 1..Len(lines) : lines[i].k \in ErrorKinds}

\* argparse accepts the command line and it does not ask for the help
Accepted == argv.file /\ ~argv.help /\ argv.days_token # "junk"

\* The error line that fits what is on disk
ExpectedErrorKind ==
    CASE fs.kind = "missing" -> "ErrorFileNotFound"
      [] fs.kind = "garbage" -> "ErrorInvalidJSON"
      [] OTHER -> "Error"

C1_Outcome ==
    pc = "exited" =>
        IF Accepted
        THEN /\ exit_code \in {Some(ExitOk), Some(ExitError)}
             /\ exit_code = Some(ExitError) <=> exc # NoExc
             /\ fs.kind \in {"missing", "denied", "garbage"} => exit_code = Some(ExitError)
             /\ exit_code = Some(ExitError) =>
                   /\ ErrorLines(out) = {Len(out)}
                   /\ out[Len(out)].k = ExpectedErrorKind
             /\ exit_code = Some(ExitOk) => ErrorLines(out) = {}
        ELSE /\ exit_code = Some(IF argv.help THEN ExitOk ELSE ExitUsage)
             /\ ErrorLines(out) = {}

\* Within one run, a step only adds to what is printed
C1_Printed == run' = run => IsPrefix(out, out')

\* C1 (as amended): a run of main whose command line argparse accepts ends
\* with status 1 and exactly one error line, printed last, when the file is
\* missing, unreadable or not JSON or any other exception is raised while
\* filtering or analysing, and with status 0 and no error line otherwise; a
\* command line argparse rejects ends the run with status 2 and -h with
\* status 0, before the file is opened; what was printed before a failure
\* stays printed.
C1_MainOutcomes == [](C1_Outcome) /\ [][C1_Printed]_vars

\* C1 witness: an accepted run failed in the middle of the usage summary,
\* after the header was printed, and ended with status 1.
C1_Witness ==
    /\ pc = "exited"
    /\ Accepted
    /\ exit_code = Some(ExitError)
    /\ exc.type = "KeyError"
    /\ "UsageHeader" \in Kinds(out)
    /\ out[Len(out)].k = "Error"

\* C1 (as stated): every run of main ends with status 0 or status 1.
C1_TwoOutcomesOnly == pc = "exited" => exit_code \in {Some(ExitOk), Some(ExitError)}

\* The export is a JSON object whose date keys are all dates
WellFormedExport ==
    /\ fs.kind = "json"
    /\ fs.doc.type = "object"
    /\ LET dd == Get(fs.doc.value, "dailyData", <<>>)
       IN \A i \in 1..Len(dd) : DateParses(dd[i][1])

\* C2 (as stated): for a readable, valid-JSON export, a day record lacking
\* a key is read as 0 or empty in every mode, so a missing key never ends
\* the run with status 1.
C2_MissingKeyNeverFatal ==
    (pc = "exited" /\ Accepted /\ WellFormedExport) => exit_code # Some(ExitError)

\* The banner of line 365, when the filter ran
Banner ==
    IF argv.days_token = "int" /\ argv.days_value # 0
    THEN <<Line("AnalyzingLast", <<argv.days_value, Len(daily_data)>>)>>
    ELSE <<>>

\* C4: when dailyData is empty or absent, also when the --days filter
\* emptied it, analyze_usage_data prints the "No usage data found" line and
\* nothing else, and raises nothing.
C4_EmptyExport ==
    (pc \in {"full_wellness", "except"}
     /\ ~args.wellness_only /\ ~args.correlations
     /\ data.type = "object"
     /\ Get(data.value, "dailyData", <<>>) = <<>>)
    => /\ pc = "full_wellness"
       /\ exc = NoExc
       /\ out = Banner \o <<Line("NoUsageData", <<>>)>>

\* C4 witness: an export with days, all of them removed by --days, went
\* through analyze_usage_data.
C4_Witness ==
    /\ pc = "full_wellness"
    /\ Get(fs.doc.value, "dailyData", <<>>) # <<>>
    /\ Get(data.value, "dailyData", <<>>) = <<>>
    /\ Banner # <<>>
    /\ out = Banner \o <<Line("NoUsageData", <<>>)>>

\* The date lies in the N days up to the current date, both ends included
InLastNDays(date_str, clock, n) ==
    LET today == clock \div 2
    IN today - n <= date_str.day /\ date_str.day <= today

\* C5 (as stated): with --days N, every day that is analysed has a date
\* within the last N days of the current date, for every N the flag accepts.
C5_OnlyLastNDays ==
    (pc = "dispatch" /\ args.days # None) =>
        \A i \in 1..Len(daily_data) : InLastNDays(daily_data[i][1], now, args.days[1])

\* What the mode flags bar from the output, in every state of a run
Barred ==
    IF args.wellness_only THEN UsageKinds \cup CorrelationKinds
    ELSE IF args.correlations THEN UsageKinds \cup WellnessKinds
    ELSE {}

\* C6 (as amended): with --wellness-only, alone or together with
\* --correlations, only the wellness section or its no-data notice is
\* printed; with --correlations and without --wellness-only, only the
\* correlation section or its no-data notice is printed.
C6_ModeSelectsSection ==
    /\ Kinds(out) \cap Barred = {}
    /\ (pc = "exited" /\ exit_code = Some(ExitOk) /\ Accepted) =>
          /\ args.wellness_only =>
                Kinds(out) \cap {"WellnessHeader", "NoWellnessData"} # {}
          /\ (args.correlations /\ ~args.wellness_only) =>
                Kinds(out) \cap {"CorrelationsHeader", "NoWellnessDataForCorrelations"} # {}

\* C6 witness: both flags were given and the run printed the wellness
\* section.
C6_Witness ==
    /\ pc = "exited"
    /\ exit_code = Some(ExitOk)
    /\ args.wellness_only
    /\ args.correlations
    /\ "WellnessHeader" \in Kinds(out)

\* C6 (as stated): whenever --correlations is given, also together with
\* --wellness-only, only the correlation section or its no-data notice is
\* printed.
C6_CorrelationsAlwaysAlone ==
    args.correlations =>
        /\ Kinds(out) \cap (UsageKinds \cup WellnessKinds) = {}
        /\ (pc = "exited" /\ exit_code = Some(ExitOk)) =>
              Kinds(out) \cap {"CorrelationsHeader", "NoWellnessDataForCorrelations"} # {}

\* The re-run has ended
RerunEnded == run = 2 /\ pc = "exited"

SameAsFirstRun == out = prev[1].out /\ exit_code = prev[1].exit_code

\* C8 (as amended): two runs on the same file with the same arguments print
\* the same lines and end with the same status when --days is absent or 0,
\* or when the clock reads the same in both runs; with --days N the output
\* depends on the current time as well.
C8_SameOutputTwice ==
    (RerunEnded /\ (argv.days_token # "int" \/ argv.days_value = 0 \/ now = prev[1].now))
    => SameAsFirstRun

\* C8 witness: the re-run happened a day after the first run, without
\* --days, and printed the full report again.
C8_Witness ==
    /\ RerunEnded
    /\ now # prev[1].now
    /\ argv.days_token = "none"
    /\ {"UsageHeader", "WellnessHeader", "CorrelationsHeader"} \subseteq Kinds(out)
    /\ SameAsFirstRun

\* C8 (as stated): two runs on the same file with the same arguments always
\* print the same lines and end with the same status.
C8_AlwaysSameOutput == RerunEnded => SameAsFirstRun

----------------------------------------------------------------------------
(* Statements about analyze_usage_data *)

\* The applications an export names, and the time each has over all days,
\* counted from the export itself
AppUsageOf(day) == Get(day, "appUsage", <<>>)

AllApps(dd) ==
    UNION {{AppUsageOf(dd[i][2])[j][1] : j \in 1..Len(AppUsageOf(dd[i][2]))} : i \in 1..Len(dd)}

AppTotal(dd, app) ==
    SumSeq([i \in 1..Len(dd) |->
        SumSeq([j \in 1..Len(AppUsageOf(dd[i][2])) |->
            IF AppUsageOf(dd[i][2])[j][1] = app THEN AppUsageOf(dd[i][2])[j][2] ELSE 0])])

TopAppLinesOf(lines) == SelectSeq(lines, LAMBDA l : l.k = "TopApp")

\* Every day has the three totals, so that the summary reaches the listing
HasTotals(dd) ==
    \A i \in 1..Len(dd) :
        {"totalSessionTime", "totalBreakTime", "callTime"} \subseteq DOMAIN dd[i][2]

\* Nothing after the listing can raise: every session has its duration and
\* every date key is a date
RestWellFormed(dd) ==
    /\ \A i \in 1..Len(dd) : DateParses(dd[i][1])
    /\ \A i \in 1..Len(dd) : \A key \in {"deepFocusSessions", "continuousWorkSessions"} :
          \A j \in 1..Len(Get(dd[i][2], key, <<>>)) :
              "duration" \in DOMAIN Get(dd[i][2], key, <<>>)[j]

\* C7: the listing shows min(10, number of applications) lines; line i shows
\* an application whose time summed over all days is the i-th largest (so
\* the order is non-increasing and no application left out has more than one
\* shown), with that time and with that time / total session time * 100, or
\* 0 when the total session time is 0; the summary raises nothing, also
\* when the applications' times add up to more than the total session time.
C7_TopApplications ==
    (pc = "usage_returned" /\ HasTotals(daily_data)) =>
        \A sums \in {[a \in AllApps(daily_data) |-> AppTotal(daily_data, a)]} :
        \A total \in {SumSeq([i \in 1..Len(daily_data) |->
                                 daily_data[i][2]["totalSessionTime"]])} :
        \A shown \in {TopAppLinesOf(out)} :
        \A more \in {[a \in DOMAIN sums |->
                         Cardinality({b \in DOMAIN sums : sums[b] > sums[a]})]} :
        \A atleast \in {[a \in DOMAIN sums |->
                            Cardinality({b \in DOMAIN sums : sums[b] >= sums[a]})]} :
           /\ Len(shown) = (IF Cardinality(DOMAIN sums) < 10
                            THEN Cardinality(DOMAIN sums) ELSE 10)
           /\ \A i \in 1..Len(shown) :
                 \E a \in DOMAIN sums :
                    /\ more[a] < i
                    /\ i <= atleast[a]
                    /\ shown[i].v = <<i, AppName(a), format_duration(Rat(sums[a], 1)),
                                      Fmt1(IF total > 0 THEN Rat(sums[a] * 100, total)
                                           ELSE Rat(0, 1))>>
           /\ RestWellFormed(daily_data) => exc = NoExc

\* C7 witness: more than ten applications, not all with the same time, one
\* of them with more time than the total session time, were listed: ten
\* lines, no error.
C7_Witness ==
    /\ pc = "usage_returned"
    /\ HasTotals(daily_data)
    /\ Cardinality(AllApps(daily_data)) > TopN
    /\ \E sums \in {[a \in AllApps(daily_data) |-> AppTotal(daily_data, a)]} :
       \E total \in {SumSeq([i \in 1..Len(daily_data) |->
                                daily_data[i][2]["totalSessionTime"]])} :
          /\ \E a, b \in DOMAIN sums : sums[a] < sums[b]
          /\ total > 0
          /\ \E a \in DOMAIN sums : sums[a] > total
    /\ Len(TopAppLinesOf(out)) = TopN
    /\ exc = NoExc

----------------------------------------------------------------------------
(* Statements about analyze_correlations *)

\* The days that carry wellness data
WellnessDays(dd) ==
    {i \in 1..Len(dd) : Get(dd[i][2], "wellnessMetrics", EmptyDict) # EmptyDict}

\* C3 (as stated): when fewer than 3 of the analysed days carry wellness
\* data, analyze_correlations prints nothing at all.
C3_SilentBelowThreeDays ==
    (pc = "correlations_returned" /\ Cardinality(WellnessDays(daily_data)) < 3)
    => out = <<>>

InsightKinds == {"InsightEnergy", "InsightExercise", "InsightMateHigher", "InsightMateLower"}

\* a - b > gap
ExceedsBy(a, b, gap) == RGt(RSub(a, b), Rat(gap, 1))

\* C9 (as amended): once the insights step is reached, the energy insight
\* is printed iff avg energy (high) - avg energy (low) > 1, the exercise
\* insight iff exercise rate (high) - exercise rate (low) > 20, the "higher
\* mate" insight iff avg mate (high) - avg mate (low) > 1 and the "lower
\* mate" insight iff avg mate (low) - avg mate (high) > 1; no insight is
\* printed outside the insights step.
C9_Insights ==
    pc = "correlations_returned" =>
        LET ks == Kinds(out)
            high == HighDays(Correlations(daily_data))
            low == LowDays(Correlations(daily_data))
        IN IF "InsightsHeader" \in ks /\ exc = NoExc
           THEN /\ "InsightEnergy" \in ks <=> ExceedsBy(AvgEnergy(high), AvgEnergy(low), 1)
                /\ "InsightExercise" \in ks
                      <=> ExceedsBy(ExerciseRate(high), ExerciseRate(low), 20)
                /\ "InsightMateHigher" \in ks <=> ExceedsBy(AvgMate(high), AvgMate(low), 1)
                /\ "InsightMateLower" \in ks <=> ExceedsBy(AvgMate(low), AvgMate(high), 1)
           ELSE ks \cap InsightKinds = {}

\* C9 witness: the insights step printed the "lower mate" insight and not
\* the energy insight, the high days' average energy being higher by no
\* more than 1.
C9_Witness ==
    /\ pc = "correlations_returned"
    /\ exc = NoExc
    /\ "InsightMateLower" \in Kinds(out)
    /\ "InsightEnergy" \notin Kinds(out)
    /\ RGt(AvgEnergy(HighDays(Correlations(daily_data))),
           AvgEnergy(LowDays(Correlations(daily_data))))

\* C9 (as stated): a mate insight is printed exactly when avg mate (high) -
\* avg mate (low) > 1, and no insight is printed when the high days'
\* average is below the low days'.
C9_OnlyWhenHighExceeds ==
    (pc = "correlations_returned" /\ "InsightsHeader" \in Kinds(out) /\ exc = NoExc) =>
        LET high == HighDays(Correlations(daily_data))
            low == LowDays(Correlations(daily_data))
        IN (Kinds(out) \cap {"InsightMateHigher", "InsightMateLower"} # {})
              <=> ExceedsBy(AvgMate(high), AvgMate(low), 1)

SessionTimeOf(day) == Get(day, "totalSessionTime", 0)

HighCount(lines) ==
    IF \E i \in 1..Len(lines) : lines[i].k = "HighHeader"
    THEN (CHOOSE l \in {lines[i] : i \in 1..Len(lines)} : l.k = "HighHeader").v[1]
    ELSE 0

LowCount(lines) ==
    IF \E i \in 1..Len(lines) : lines[i].k = "LowHeader"
    THEN (CHOOSE l \in {lines[i] : i \in 1..Len(lines)} : l.k = "LowHeader").v[1]
    ELSE 0

\* C10: for at least 3 days whose session times are all >= 0, no day is
\* both a high and a low productivity day, a low day comes with a high day,
\* and analyze_correlations raises nothing.
C10_HighLowSets ==
    (/\ pc = "correlations_returned"
     /\ Len(daily_data) >= 3
     /\ \A i \in 1..Len(daily_data) : SessionTimeOf(daily_data[i][2]) >= 0)
    => LET c == Correlations(daily_data)
       IN /\ \A i \in 1..Len(c) : ~(IsHigh(c[i], c) /\ IsLow(c[i], c))
          /\ HighCount(out) + LowCount(out) <= Len(daily_data)
          /\ LowCount(out) > 0 => HighCount(out) > 0
          /\ exc = NoExc

\* C10 witness: three days with session times >= 0, a low day among them,
\* went through the insights step without an error.
C10_Witness ==
    /\ pc = "correlations_returned"
    /\ Len(daily_data) >= 3
    /\ \A i \in 1..Len(daily_data) : SessionTimeOf(daily_data[i][2]) >= 0
    /\ LowCount(out) > 0
    /\ HighCount(out) > 0
    /\ "InsightsHeader" \in Kinds(out)
    /\ exc = NoExc

====
